---------------------------- MODULE Spec2Model ----------------------------
(***************************************************************************)
(* Versioned DataProduct API: a controller resolves a version token to a   *)
(* strategy through the factory; the strategy wires a chain of handlers    *)
(* with setNext and runs it with handle; business handlers reach the       *)
(* repository.  Every action is one synchronous run of the code between    *)
(* two suspension points (await).                                          *)
(***************************************************************************)
EXTENDS Naturals, Sequences, FiniteSets, TLC

(***************************************************************************)
(* Bounds of the model.                                                    *)
(***************************************************************************)
\* Longest recorded sequence of process invocations of one request; the
\* recording saturates there (the code itself has no such limit).
MaxTrace == 6

(***************************************************************************)
(* Values.                                                                 *)
(***************************************************************************)
\* JavaScript's undefined for an optional field.
NoVal == "undefined"
\* No error.
NoErr == "none"

\* The request slots; Spec serves one request at a time in SeqReqs.
Reqs == {"r1", "r2"}
SeqReqs == {"r1"}

\* Identifiers of the store: id1 is stored initially, id2 is not.
Ids == {"id1", "id2"}
\* Names a client sends: a short one and two acceptable ones.
Names == {"ab", "Catalog A", "Renamed"}
Infoports == {"ip"}
Descriptions == {"new text"}
\* Version tokens of the query string; NoVal is a request without one.
Tokens == {"v1", "v2", "v3", NoVal}

\* The handler instances (one per class: the DI container's singletons).
ValidateCreate == "ValidateCreateHandler"
BusinessCreate == "BusinessCreateHandler"
AuditCreate == "AuditCreateHandler"
ValidateUpdate == "ValidateUpdateHandler"
BusinessUpdate == "BusinessUpdateHandler"
BusinessUpdateV2 == "BusinessUpdateHandlerV2"
AuditUpdate == "AuditUpdateHandler"
MessageUpdate == "MessageUpdateHandler"
Handlers == {ValidateCreate, BusinessCreate, AuditCreate, ValidateUpdate,
             BusinessUpdate, BusinessUpdateV2, AuditUpdate, MessageUpdate}
\* A handler whose next field is undefined.
NoNext == "none"

\* The strategy instances.
StrategyV1 == "DataProductStrategyV1"
StrategyV2 == "DataProductStrategyV2"
NoStrategy == "none"

\* The errors the code raises.
ValidationFailed == "Validation failed"
UnsupportedVersion == "Unsupported API version"
NullDeref == "TypeError: cannot read properties of null"
\* A failure of a side-effect stage (the audit trail or the message
\* channel is unavailable).
SideEffectError == "SideEffectError"
\* A failure of the database call (connectivity, constraint).
PersistenceError == "PersistenceError"
\* The errors the documentation names and the code never raises.
NotFound == "NotFound"
NameImmutable == "name is immutable in v2"

\* The DTO: id, name, infoport, description, status; absent fields are NoVal.
EmptyDto == [id |-> NoVal, name |-> NoVal, infoport |-> NoVal,
             description |-> NoVal, status |-> NoVal]
\* The DTOs a client sends in a request body.
ClientDtos == [id : {NoVal, "id2"}, name : Names \cup {NoVal},
               infoport : Infoports \cup {NoVal},
               description : Descriptions \cup {NoVal}, status : {NoVal}]

\* A document of the collection; present = FALSE is a missing document.
Absent == [present |-> FALSE, name |-> NoVal, description |-> NoVal,
           status |-> NoVal]

(***************************************************************************)
(* Pure functions of the code.                                             *)
(***************************************************************************)
\* JavaScript truthiness of an optional string.
Truthy(v) == v # NoVal /\ v # ""

\* Length of a name after trim(), on the names of the model.
TrimmedLength(s) ==
    CASE s = "ab" -> 2
      [] s = "Catalog A" -> 9
      [] s = "Renamed" -> 7
      [] OTHER -> 0

\* DataProductMapper.toEntity: the id and infoport are dropped, the status
\* defaults to ACTIVE.
toEntity(dto) ==
    [name |-> dto.name, description |-> dto.description,
     status |-> IF dto.status = NoVal THEN "ACTIVE" ELSE dto.status]

\* DataProductMapper.toDto of the document stored under id.
toDto(id, doc) ==
    [id |-> id, name |-> doc.name, infoport |-> NoVal,
     description |-> doc.description, status |-> doc.status]

\* findByIdAndUpdate's $set: a key whose value is undefined is left alone.
Merge(doc, entity) ==
    [present |-> TRUE,
     name |-> IF entity.name = NoVal THEN doc.name ELSE entity.name,
     description |-> IF entity.description = NoVal THEN doc.description
                     ELSE entity.description,
     status |-> entity.status]

\* DataProductRepository.update: the store after it and the value returned,
\* <<>> for null.
RepoUpdate(st, id, dto) ==
    IF id \in DOMAIN st /\ st[id].present
    THEN LET doc == Merge(st[id], toEntity(dto))
         IN [store |-> [st EXCEPT ![id] = doc], result |-> <<toDto(id, doc)>>,
             err |-> NoErr]
    ELSE [store |-> st, result |-> <<>>, err |-> NoErr]

\* DataProductRepository.delete: findByIdAndDelete, its result dropped.
RepoDelete(st, id) ==
    [store |-> IF id \in DOMAIN st THEN [st EXCEPT ![id] = Absent] ELSE st,
     err |-> NoErr]

\* The factory as its constructor builds it: both strategies injected.
Factory == [v1 |-> StrategyV1, v2 |-> StrategyV2]

\* A factory that falls back to v1 for a token it does not know.
getStrategyFallback(version) ==
    IF version = "v2" THEN [strategy |-> Factory.v2, err |-> NoErr]
    ELSE [strategy |-> Factory.v1, err |-> NoErr]

\* DataProductStrategyFactory.getStrategy.
getStrategy(version) ==
    IF version = "v1" THEN [strategy |-> Factory.v1, err |-> NoErr]
    ELSE IF version = "v2" THEN [strategy |-> Factory.v2, err |-> NoErr]
    ELSE [strategy |-> NoStrategy, err |-> UnsupportedVersion]

\* The controller's default parameter: @Query('version') v = 'v1'.
DefaultVersion(token) == IF token = NoVal THEN "v1" ELSE token

\* A setNext that links a successor only where none is linked yet.
setNextKeepsFirst(nx, h, s) ==
    IF nx[h] = NoNext THEN [nx EXCEPT ![h] = s] ELSE nx

\* Handler.setNext on handler h of the wiring nx: `this.next = handler`.
setNext(nx, h, s) == [nx EXCEPT ![h] = s]

\* A setNext that returns its receiver (`return this`).
setNextReturnsReceiver(h, s) == h

\* The value Handler.setNext returns to its caller: `return handler`.
setNextResult(h, s) == s

\* The wiring of DataProductStrategyV1.create, a fluent chain: each setNext
\* is called on the value the one before returned.
WireCreate(nx) ==
    LET n1 == setNext(nx, ValidateCreate, BusinessCreate)
        r1 == setNextResult(ValidateCreate, BusinessCreate)
    IN  setNext(n1, r1, AuditCreate)

\* A v2 create that wires a chain of its own, without the business stage.
StrategyWireCreateOwn(strategy, nx) ==
    IF strategy = StrategyV2
    THEN setNext(nx, ValidateCreate, AuditCreate)
    ELSE WireCreate(nx)

\* The wiring a strategy's create performs: v1's own, and for v2 v1's too,
\* DataProductStrategyV2.create being `return this.v1.create(dto)`.
StrategyWireCreate(strategy, nx) == WireCreate(nx)

\* An update wiring with the audit stage linked before the business stage.
WireUpdateAuditFirst(nx, business) ==
    setNext(setNext(setNext(setNext(nx, ValidateUpdate, AuditUpdate),
                            AuditUpdate, business),
                    business, MessageUpdate),
            MessageUpdate, NoNext)

\* An update wiring that keeps what the first handler was linked to before,
\* behind the last stage.
WireUpdateKeepsTail(nx, business) ==
    setNext(setNext(setNext(setNext(nx, ValidateUpdate, business),
                            business, AuditUpdate),
                    AuditUpdate, MessageUpdate),
            MessageUpdate, nx[ValidateUpdate])

\* The wiring of update: validate -> business (of the version) -> audit ->
\* message.
WireUpdate(nx, business) ==
    LET n1 == setNext(nx, ValidateUpdate, business)
        r1 == setNextResult(ValidateUpdate, business)
        n2 == setNext(n1, r1, AuditUpdate)
        r2 == setNextResult(r1, AuditUpdate)
    IN  setNext(n2, r2, MessageUpdate)

\* An update without the stamping statement.
StampIdSkipped(id, body) == body

\* A stamping that keeps the identifier of the body when there is one.
StampIdKeepsBody(id, body) ==
    IF body.id # NoVal THEN body ELSE [body EXCEPT !.id = id]

\* The first statement of update(id, dto): `dto.id = id`.
StampId(id, body) == [body EXCEPT !.id = id]

\* The business handler each strategy's update wires.
BusinessOf(strategy) ==
    IF strategy = StrategyV2 THEN BusinessUpdateV2 ELSE BusinessUpdate

\* ValidateUpdateHandler.process: the error it throws, or NoErr.
ValidateUpdateProcess(ctx) ==
    IF ~Truthy(ctx.name) \/ ~Truthy(ctx.infoport) THEN ValidationFailed
    ELSE NoErr

\* ValidateCreateHandler.process: the name is required, at least 3
\* characters after trimming.
ValidateCreateProcess(ctx) ==
    IF ~Truthy(ctx.name) \/ TrimmedLength(ctx.name) < 3 THEN ValidationFailed
    ELSE NoErr

\* The handlers whose process awaits the repository.
Suspending == {BusinessUpdate, BusinessUpdateV2}

\* BusinessCreateHandler.process: an empty body ("Business logic goes
\* here"); the repository is not called.
BusinessCreateProcess(ctx) == NoErr

\* AuditCreateHandler.process: console.log.
AuditCreateProcess(ctx) == NoErr

\* AuditUpdateHandler.process: an empty body.
AuditUpdateProcess(ctx) == NoErr

\* MessageUpdateHandler.process: console.log.
MessageUpdateProcess(ctx) == NoErr

\* A message stage that marks the record as notified, and as notified
\* again when it is marked already.
MessageUpdateStoreMarks(st, ctx) ==
    IF ctx.id \in DOMAIN st /\ st[ctx.id].present
    THEN [st EXCEPT ![ctx.id].status =
             IF @ = "NOTIFIED" THEN "RENOTIFIED" ELSE "NOTIFIED"]
    ELSE st

\* The store after MessageUpdateHandler.process(ctx): the handler has no
\* repository and writes a line to the console only.
MessageUpdateStore(st, ctx) == st

\* process of a handler that runs to its end without suspending: the error
\* it throws, or NoErr.
ProcessSync(h, ctx) ==
    CASE h = ValidateUpdate -> ValidateUpdateProcess(ctx)
      [] h = ValidateCreate -> ValidateCreateProcess(ctx)
      [] h = BusinessCreate -> BusinessCreateProcess(ctx)
      [] h = AuditCreate -> AuditCreateProcess(ctx)
      [] h = AuditUpdate -> AuditUpdateProcess(ctx)
      [] h = MessageUpdate -> MessageUpdateProcess(ctx)

\* A handle that goes on to the successor whatever the process did.
handleSkipsFailure(nx, h, outcome) ==
    IF nx[h] # NoNext THEN [kind |-> "call", err |-> NoErr, to |-> nx[h]]
    ELSE IF outcome # NoErr
    THEN [kind |-> "throw", err |-> outcome, to |-> NoNext]
    ELSE [kind |-> "return", err |-> NoErr, to |-> NoNext]

\* A handle that catches the rejection of its process and returns.
handleCatches(nx, h, outcome) ==
    IF outcome = NoErr /\ nx[h] # NoNext
    THEN [kind |-> "call", err |-> NoErr, to |-> nx[h]]
    ELSE [kind |-> "return", err |-> NoErr, to |-> NoNext]

\* Handler.handle after `await this.process(request)` settled with outcome:
\* a rejection is not caught, else the successor is handled, if any.
handle(nx, h, outcome) ==
    IF outcome # NoErr THEN [kind |-> "throw", err |-> outcome, to |-> NoNext]
    ELSE IF nx[h] # NoNext THEN [kind |-> "call", err |-> NoErr, to |-> nx[h]]
    ELSE [kind |-> "return", err |-> NoErr, to |-> NoNext]

\* A strategy that restores the record it found when its chain rejects.
StoreRolledBack(st, rq) == rq.pre

\* The store once the rejection of a chain has reached the strategy's
\* operation: `await this.validateUpdate.handle(dto)` stands in no try
\* block, nothing is written on the way out.
StoreOnRejection(st, rq) == st

\* The mark recorded when a process rejects.
Thrown == "throw"

\* Recording of an event of a request: the invocation of h's process (h a
\* handler) or the rejection of the process invoked last (h = Thrown).
Record(trace, h) ==
    IF Len(trace) < MaxTrace THEN Append(trace, h) ELSE trace

(***************************************************************************)
(* State.                                                                  *)
(***************************************************************************)
VARIABLES
    next,    \* next[h]: the successor field of handler h
    store,   \* store[id]: the document stored under id
    req      \* req[r]: the request served in slot r

vars == <<next, store, req>>

\* A free slot.  pc: idle, processed (a process promise has settled), io (a
\* repository call is in flight), repoDone (it has settled), done.  body
\* keeps the DTO as the client sent it, pre the store at the call.
IdleReq ==
    [pc |-> "idle", token |-> NoVal, strategy |-> NoStrategy, op |-> "none",
     id |-> NoVal, body |-> EmptyDto, dto |-> EmptyDto, ctx |-> EmptyDto,
     cur |-> NoNext,
     exc |-> NoErr, ioerr |-> NoErr, res |-> <<>>, err |-> NoErr,
     ret |-> <<>>, trace |-> <<>>, pre |-> [i \in Ids |-> Absent]]

\* The collection holds one document; no handler has a successor yet.
Init ==
    /\ next = [h \in Handlers |-> NoNext]
    /\ store = [i \in Ids |->
                  IF i = "id1"
                  THEN [present |-> TRUE, name |-> "Catalog A",
                        description |-> NoVal, status |-> "ACTIVE"]
                  ELSE Absent]
    /\ req = [r \in Reqs |-> IdleReq]

\* The process in flight settles with outcome (NoErr: it fulfils).
Settle(rq, outcome) ==
    [rq EXCEPT !.pc = "processed", !.exc = outcome,
               !.trace = IF outcome # NoErr THEN Record(@, Thrown) ELSE @]

\* h.handle(ctx) up to the first suspension of h.process(ctx): a business
\* update handler stops at `await this.repo.update(dto.id, dto)`, every
\* other process runs to its end.
Invoke(rq, h, ctx) ==
    LET base == [rq EXCEPT !.cur = h, !.ctx = ctx, !.trace = Record(@, h)]
    IN  IF h \in Suspending THEN [base EXCEPT !.pc = "io"]
        ELSE Settle(base, ProcessSync(h, ctx))

\* The request a controller method starts with.
Arrived(token, op, id, dto) ==
    [IdleReq EXCEPT !.token = token, !.op = op, !.id = id, !.dto = dto,
                    !.strategy = getStrategy(DefaultVersion(token)).strategy,
                    !.pre = store]

\* The request rejected by the factory.
Rejected(rq, e) == [rq EXCEPT !.pc = "done", !.err = e]

(***************************************************************************)
(* Actions.                                                                *)
(***************************************************************************)
\* DataProductController.create -> getStrategy(v).create(dto); v2's create
\* delegates to v1's: wire the create chain and handle the DTO.
ControllerCreate(r) ==
    /\ req[r].pc = "idle"
    /\ \E token \in Tokens, dto \in ClientDtos :
         LET got == getStrategy(DefaultVersion(token))
             rq == [Arrived(token, "create", NoVal, dto) EXCEPT !.body = dto]
         IN  IF got.err # NoErr
             THEN /\ req' = [req EXCEPT ![r] = Rejected(rq, got.err)]
                  /\ UNCHANGED <<next, store>>
             ELSE /\ next' = StrategyWireCreate(got.strategy, next)
                  /\ req' = [req EXCEPT ![r] = Invoke(rq, ValidateCreate, dto)]
                  /\ UNCHANGED store

\* DataProductController.update -> getStrategy(v).update(id, dto): stamp
\* the id, wire the update chain of the version and handle the DTO.
ControllerUpdate(r) ==
    /\ req[r].pc = "idle"
    /\ \E token \in Tokens, id \in Ids, body \in ClientDtos :
         LET got == getStrategy(DefaultVersion(token))
             dto == StampId(id, body)
             rq == [Arrived(token, "update", id, dto) EXCEPT !.body = body]
         IN  IF got.err # NoErr
             THEN /\ req' = [req EXCEPT ![r] = Rejected(rq, got.err)]
                  /\ UNCHANGED <<next, store>>
             ELSE /\ next' = WireUpdate(next, BusinessOf(got.strategy))
                  /\ req' = [req EXCEPT ![r] = Invoke(rq, ValidateUpdate, dto)]
                  /\ UNCHANGED store

\* The delete route: the strategy's delete passes through to the repository.
ControllerDelete(r) ==
    /\ req[r].pc = "idle"
    /\ \E token \in Tokens \ {NoVal}, id \in Ids :
         LET got == getStrategy(token)
             rq == Arrived(token, "delete", id, EmptyDto)
         IN  req' = [req EXCEPT ![r] =
                        IF got.err # NoErr THEN Rejected(rq, got.err)
                        ELSE [rq EXCEPT !.pc = "io"]]
    /\ UNCHANGED <<next, store>>

\* Handler.handle, the awaited process rejected: nothing catches the error,
\* it rejects every handle up the chain and the strategy's operation.
HandleThrow(r) ==
    /\ req[r].pc = "processed"
    /\ LET h == handle(next, req[r].cur, req[r].exc)
       IN  /\ h.kind = "throw"
           /\ req' = [req EXCEPT ![r].pc = "done", ![r].err = h.err]
    /\ store' = StoreOnRejection(store, req[r])
    /\ UNCHANGED next

\* Handler.handle, the awaited process fulfilled and this.next is set:
\* this.next.handle(request).
HandleNext(r) ==
    /\ req[r].pc = "processed"
    /\ LET h == handle(next, req[r].cur, req[r].exc)
       IN  /\ h.kind = "call"
           /\ req' = [req EXCEPT ![r] = Invoke(req[r], h.to, req[r].ctx)]
    /\ UNCHANGED <<next, store>>

\* Handler.handle, the awaited process fulfilled and no successor: every
\* handle of the chain returns and the strategy returns its dto.  (No frame
\* of BusinessUpdateHandlerV2.process is below: that process never
\* fulfils.)
HandleReturn(r) ==
    /\ req[r].pc = "processed"
    /\ LET h == handle(next, req[r].cur, req[r].exc)
       IN  /\ h.kind = "return"
           /\ req' = [req EXCEPT ![r].pc = "done", ![r].ret = <<req[r].dto>>]
    /\ UNCHANGED <<next, store>>

\* DataProductRepository.update, the database call settling.
RepositoryUpdate(r) ==
    /\ req[r].pc = "io"
    /\ req[r].op = "update"
    /\ LET out == RepoUpdate(store, req[r].ctx.id, req[r].ctx)
       IN  /\ store' = out.store
           /\ req' = [req EXCEPT ![r].pc = "repoDone", ![r].res = out.result,
                                  ![r].ioerr = out.err]
    /\ UNCHANGED next

\* DataProductRepository.delete, the database call settling; the route
\* returns.
RepositoryDelete(r) ==
    /\ req[r].pc = "io"
    /\ req[r].op = "delete"
    /\ LET out == RepoDelete(store, req[r].id)
       IN  /\ store' = out.store
           /\ req' = [req EXCEPT ![r].pc = "done", ![r].err = out.err]
    /\ UNCHANGED next

\* A repository call failing in the database (connection lost): the store
\* is left alone and the call rejects.
RepositoryFault(r) ==
    /\ req[r].pc = "io"
    /\ req' = [req EXCEPT ![r].pc = IF req[r].op = "delete" THEN "done"
                                    ELSE "repoDone",
                          ![r].ioerr = PersistenceError,
                          ![r].err = IF req[r].op = "delete"
                                     THEN PersistenceError ELSE @]
    /\ UNCHANGED <<next, store>>

\* BusinessUpdateHandler.process after `await this.repo.update(...)`: the
\* value returned is dropped, a rejection rejects the process.
BusinessUpdateResume(r) ==
    /\ req[r].pc = "repoDone"
    /\ req[r].cur = BusinessUpdate
    /\ req' = [req EXCEPT ![r] = Settle(req[r], req[r].ioerr)]
    /\ UNCHANGED <<next, store>>

\* The outcome of BusinessUpdateHandlerV2.process after its await:
\* `return super.handle(updated)` runs Handler.handle on this very
\* handler, which awaits this.process(updated) again: on null, reading
\* dto.id throws; on a record, the repository is called once more.
BusinessUpdateV2AfterAwait(rq) ==
    IF rq.ioerr # NoErr
    THEN Settle(rq, rq.ioerr)
    ELSE IF rq.res = <<>>
    THEN Settle([rq EXCEPT !.trace = Record(@, BusinessUpdateV2)], NullDeref)
    ELSE [rq EXCEPT !.pc = "io", !.ctx = rq.res[1],
                    !.trace = Record(@, BusinessUpdateV2)]

BusinessUpdateV2Resume(r) ==
    /\ req[r].pc = "repoDone"
    /\ req[r].cur = BusinessUpdateV2
    /\ req' = [req EXCEPT ![r] = BusinessUpdateV2AfterAwait(req[r])]
    /\ UNCHANGED <<next, store>>

\* The controller's promise settles: the response is sent, the slot is free.
Respond(r) ==
    /\ req[r].pc = "done"
    /\ req' = [req EXCEPT ![r] = IdleReq]
    /\ UNCHANGED <<next, store>>

\* One request at a time.
Next ==
    \E r \in SeqReqs :
        \/ ControllerCreate(r)
        \/ ControllerUpdate(r)
        \/ ControllerDelete(r)
        \/ HandleThrow(r)
        \/ HandleNext(r)
        \/ HandleReturn(r)
        \/ RepositoryUpdate(r)
        \/ RepositoryDelete(r)
        \/ RepositoryFault(r)
        \/ BusinessUpdateResume(r)
        \/ BusinessUpdateV2Resume(r)
        \/ Respond(r)

Spec == Init /\ [][Next]_vars

\* Every step of a request in flight is eventually taken: the event loop
\* runs every settled continuation and the database answers every call.
Progress(r) ==
    \/ HandleThrow(r)
    \/ HandleNext(r)
    \/ HandleReturn(r)
    \/ RepositoryUpdate(r)
    \/ RepositoryDelete(r)
    \/ BusinessUpdateResume(r)
    \/ BusinessUpdateV2Resume(r)

FairSpec == Spec /\ \A r \in SeqReqs : WF_vars(Progress(r))

(***************************************************************************)
(* Concurrent requests.                                                    *)
(***************************************************************************)
\* The tokens and the bodies of the requests served concurrently: an
\* update that keeps the name, one that renames, one that fails validation.
ConcTokens == {"v1", "v2"}
ConcDtos ==
    {[EmptyDto EXCEPT !.name = "Catalog A", !.infoport = "ip"],
     [EmptyDto EXCEPT !.name = "Renamed", !.infoport = "ip"],
     [EmptyDto EXCEPT !.name = "Catalog A"]}

\* The request rq is one of those.
ConcInput(rq) ==
    /\ rq.token \in ConcTokens
    /\ rq.op # "delete" => rq.body \in ConcDtos

\* A callback of the event loop that runs whatever the awaits did.
AnyAwaitYields == TRUE

\* Node's event loop.  The continuation of an await on a promise that is
\* settled without I/O (`await this.process(request)` of a handler whose
\* process awaits nothing, the resumption after the database answered) is
\* a microtask, and the microtask queue is drained before the loop runs its
\* next callback: an incoming request or a database answer runs only when
\* no request has a continuation pending.
MicrotasksDrained ==
    \A q \in Reqs : req[q].pc \notin {"processed", "repoDone"}

\* Requests in both slots, interleaved by the event loop.
ConcNext ==
    \E r \in Reqs :
        \/ MicrotasksDrained /\ ControllerCreate(r) /\ ConcInput(req'[r])
        \/ MicrotasksDrained /\ ControllerUpdate(r) /\ ConcInput(req'[r])
        \/ MicrotasksDrained /\ ControllerDelete(r) /\ ConcInput(req'[r])
        \/ HandleThrow(r)
        \/ HandleNext(r)
        \/ HandleReturn(r)
        \/ MicrotasksDrained /\ RepositoryUpdate(r)
        \/ MicrotasksDrained /\ RepositoryDelete(r)
        \/ MicrotasksDrained /\ RepositoryFault(r)
        \/ BusinessUpdateResume(r)
        \/ BusinessUpdateV2Resume(r)
        \/ Respond(r)

ConcSpec == Init /\ [][ConcNext]_vars

(***************************************************************************)
(* The message stage invoked again.                                        *)
(***************************************************************************)
\* MessageUpdateHandler.process called once more with the context of the
\* operation it has just signalled (a redelivery).
MessageReinvoke(r) ==
    /\ req[r].pc = "processed"
    /\ req[r].cur = MessageUpdate
    /\ req[r].exc = NoErr
    /\ req' = [req EXCEPT ![r] = Invoke(req[r], MessageUpdate, req[r].ctx)]
    /\ store' = MessageUpdateStore(store, req[r].ctx)
    /\ UNCHANGED next

MessageNext == Next \/ \E r \in SeqReqs : MessageReinvoke(r)

MessageSpec == Init /\ [][MessageNext]_vars

(***************************************************************************)
(* A side-effect stage that fails.                                         *)
(***************************************************************************)
\* The process of the audit or of the message stage rejects instead of
\* fulfilling.
SideEffectFault(r) ==
    /\ req[r].pc = "processed"
    /\ req[r].cur \in {AuditUpdate, MessageUpdate}
    /\ req[r].exc = NoErr
    /\ req' = [req EXCEPT ![r] = Settle(req[r], SideEffectError)]
    /\ UNCHANGED <<next, store>>

FaultNext == Next \/ \E r \in SeqReqs : SideEffectFault(r)

FaultSpec == Init /\ [][FaultNext]_vars

(***************************************************************************)
(* The wiring operations on their own.                                     *)
(***************************************************************************)
\* The successors the handlers hold before a call: none, or a stale one
\* that no wiring of the strategies links.
PriorSuccessors == {NoNext, ValidateUpdate}
\* The handler passed to a single setNext call.
CallArguments == {MessageUpdate}

\* Any wiring to start from.
WiringInit ==
    /\ next \in [Handlers -> PriorSuccessors]
    /\ store = [i \in Ids |-> Absent]
    /\ req = [r \in Reqs |-> IdleReq]

\* x.setNext(h).
SetNextCall ==
    /\ \E x \in Handlers, h \in CallArguments : next' = setNext(next, x, h)
    /\ UNCHANGED <<store, req>>

\* The wiring step of DataProductStrategyV1.create.
WireCreateStep ==
    /\ next' = WireCreate(next)
    /\ UNCHANGED <<store, req>>

\* The wiring step of update, of either strategy.
WireUpdateStep ==
    /\ \E s \in {StrategyV1, StrategyV2} :
          next' = WireUpdate(next, BusinessOf(s))
    /\ UNCHANGED <<store, req>>

WiringNext == SetNextCall \/ WireCreateStep \/ WireUpdateStep

WiringSpec == WiringInit /\ [][WiringNext]_vars

TypeOK ==
    /\ next \in [Handlers -> Handlers \cup {NoNext}]
    /\ \A r \in Reqs :
         /\ req[r].pc \in {"idle", "processed", "io", "repoDone", "done"}
         /\ Len(req[r].trace) <= MaxTrace

(***************************************************************************)
(* Properties.                                                             *)
(***************************************************************************)
Range(s) == {s[i] : i \in 1..Len(s)}

IsPrefix(s, t) == Len(s) <= Len(t) /\ \A i \in 1..Len(s) : s[i] = t[i]

\* The update chains as documented.
V1UpdateOrder == <<ValidateUpdate, BusinessUpdate, AuditUpdate, MessageUpdate>>
V2UpdateOrder == <<ValidateUpdate, BusinessUpdateV2, AuditUpdate, MessageUpdate>>

\* A request served by a strategy operation (create or update).
StrategyCall(r) ==
    /\ req[r].pc # "idle"
    /\ req[r].strategy # NoStrategy
    /\ req[r].op \in {"create", "update"}

\* C1: halt on failure.  Once the process of a handler of a chain has
\* rejected, no process is invoked any more in that invocation: in the
\* recorded order of events of every request, a rejection is the last event.
C1_HaltOnFailure ==
    \A r \in Reqs : \A i \in 1..Len(req[r].trace) :
        req[r].trace[i] = Thrown => i = Len(req[r].trace)

\* A chain [validate, business, audit, message] whose second handler
\* rejected (the v2 update of a missing identifier): the request has ended,
\* the failing handler has a successor, and neither that successor's
\* process nor any later one was invoked.
C1_Witness ==
    \E r \in Reqs :
        /\ req[r].pc = "done"
        /\ req[r].trace = <<ValidateUpdate, BusinessUpdateV2,
                            BusinessUpdateV2, Thrown>>
        /\ next[ValidateUpdate] = BusinessUpdateV2
        /\ next[BusinessUpdateV2] = AuditUpdate
        /\ next[AuditUpdate] = MessageUpdate

\* C2: error propagation.  When a strategy's create or update has ended,
\* the error its caller receives is the very error the failing stage's
\* process raised, and none when no stage raised: nothing catches,
\* replaces or suppresses it.
C2_ErrorPropagates ==
    \A r \in Reqs :
        StrategyCall(r) =>
            /\ req[r].pc = "done" => req[r].err = req[r].exc
            /\ Thrown \in Range(req[r].trace) => req[r].exc # NoErr

\* A v2 update whose business stage raised the TypeError, which the caller
\* of the strategy received.
C2_Witness ==
    \E r \in Reqs :
        /\ StrategyCall(r)
        /\ req[r].pc = "done"
        /\ req[r].cur = BusinessUpdateV2
        /\ req[r].exc = NullDeref
        /\ req[r].err = NullDeref

\* C3: v1 update stage order.  In an invocation of v1's update in which no
\* stage fails, the processes invoked are, in this order and once each,
\* ValidateUpdate, BusinessUpdate, AuditUpdate, MessageUpdate: at any time
\* a prefix of that order, the whole of it when the update has returned,
\* and while the business stage awaits the repository no later stage has
\* started.
C3_V1UpdateOrder ==
    \A r \in Reqs :
        (/\ StrategyCall(r)
         /\ req[r].strategy = StrategyV1
         /\ req[r].op = "update"
         /\ Thrown \notin Range(req[r].trace))
        => /\ IsPrefix(req[r].trace, V1UpdateOrder)
           /\ req[r].pc = "done" => req[r].trace = V1UpdateOrder
           /\ req[r].pc \in {"io", "repoDone"} =>
                 req[r].trace = <<ValidateUpdate, BusinessUpdate>>

\* A v1 update that returned after its four stages.
C3_Witness ==
    \E r \in Reqs :
        /\ req[r].strategy = StrategyV1
        /\ req[r].op = "update"
        /\ req[r].pc = "done"
        /\ req[r].err = NoErr
        /\ req[r].trace = V1UpdateOrder

\* The update of request r passes validation and its repository calls do
\* not fail so far: v1 serves such an update.
Servable(r) ==
    /\ ValidateUpdateProcess(req[r].dto) = NoErr
    /\ req[r].ioerr = NoErr

\* A v2 update of request r on an identifier stored when it started.
V2UpdateOfStored(r) ==
    /\ StrategyCall(r)
    /\ req[r].strategy = StrategyV2
    /\ req[r].op = "update"
    /\ req[r].pre[req[r].id].present

\* C4: v2 update stage order.  In an invocation of v2's update on a stored
\* identifier in which no stage fails, the processes invoked are, in this
\* order and once each, ValidateUpdate, BusinessUpdateHandlerV2,
\* AuditUpdate, MessageUpdate.
C4_V2UpdateOrder ==
    \A r \in Reqs :
        (V2UpdateOfStored(r) /\ Thrown \notin Range(req[r].trace))
        => /\ IsPrefix(req[r].trace, V2UpdateOrder)
           /\ req[r].pc = "done" => req[r].trace = V2UpdateOrder

\* C5: create returns a record whose identifier is assigned by the system
\* (present, not the client's), whose status defaults to ACTIVE, and which
\* is stored under that identifier from then on.
C5_CreatePersists ==
    \A r \in Reqs :
        (/\ StrategyCall(r)
         /\ req[r].op = "create"
         /\ req[r].pc = "done"
         /\ req[r].err = NoErr)
        => /\ req[r].ret # <<>>
           /\ req[r].ret[1].id \in Ids
           /\ req[r].ret[1].id # req[r].dto.id
           /\ req[r].ret[1].status = "ACTIVE"
           /\ store[req[r].ret[1].id].present
           /\ ~req[r].pre[req[r].ret[1].id].present

\* The update of request r changes the stored name.
ChangesName(r) ==
    /\ req[r].dto.name # NoVal
    /\ req[r].dto.name # req[r].pre[req[r].id].name

\* C6: v2 name immutability.  A v2 update whose name differs from the
\* stored one leaves the repository as it was and ends with the validation
\* error "name is immutable in v2" (or an earlier validation error), while
\* the same update on v1 succeeds.
C6_V2NameImmutable ==
    \A r \in Reqs :
        /\ (V2UpdateOfStored(r) /\ ChangesName(r))
           => /\ store = req[r].pre
              /\ (req[r].pc = "done" /\ req[r].ioerr = NoErr)
                 => req[r].err \in {NameImmutable, ValidationFailed}
        /\ (/\ StrategyCall(r)
            /\ req[r].strategy = StrategyV1
            /\ req[r].op = "update"
            /\ req[r].pre[req[r].id].present
            /\ ChangesName(r)
            /\ Servable(r)
            /\ req[r].pc = "done")
           => req[r].err = NoErr

\* A v2 update on a stored identifier that keeps the name and that v1
\* would serve.
C7_Case(r) ==
    /\ V2UpdateOfStored(r)
    /\ ~ChangesName(r)
    /\ ValidateUpdateProcess(req[r].dto) = NoErr

\* C7: v2 merge on unchanged name.  A v2 update that does not change the
\* name succeeds whenever v1 would: it returns without error, the stored
\* record keeping its name and taking the DTO's description (or it ends
\* because the database failed).
C7_V2UpdateSucceeds ==
    \A r \in Reqs :
        C7_Case(r) ~>
            \/ /\ req[r].pc = "done"
               /\ req[r].op = "update"
               /\ req[r].err = NoErr
               /\ store[req[r].id].name = req[r].pre[req[r].id].name
               /\ req[r].dto.description # NoVal =>
                     store[req[r].id].description = req[r].dto.description
            \/ req[r].ioerr # NoErr

\* C8: an update (v1 or v2) of an identifier that is not stored never
\* invokes the audit or the message stage, and ends with a not-found error
\* (unless validation or the database failed first).
C8_UpdateMissingNotFound ==
    \A r \in Reqs :
        (/\ StrategyCall(r)
         /\ req[r].op = "update"
         /\ ~req[r].pre[req[r].id].present)
        => /\ AuditUpdate \notin Range(req[r].trace)
           /\ MessageUpdate \notin Range(req[r].trace)
           /\ (req[r].pc = "done" /\ Servable(r)) => req[r].err = NotFound

\* C9: the repository's update and delete of an identifier that is not
\* stored reject with NotFound (they neither return null nor succeed) and
\* leave the store as it was.
C9_RepositoryNotFound ==
    \A r \in Reqs :
        /\ (/\ req[r].pc = "repoDone"
            /\ ~req[r].pre[req[r].ctx.id].present
            /\ req[r].ioerr # PersistenceError)
           => /\ req[r].ioerr = NotFound
              /\ store = req[r].pre
        /\ (/\ req[r].pc = "done"
            /\ req[r].op = "delete"
            /\ req[r].strategy # NoStrategy
            /\ ~req[r].pre[req[r].id].present
            /\ req[r].err # PersistenceError)
           => /\ req[r].err = NotFound
              /\ store = req[r].pre

C11_NoSilentDefault ==
    \A r \in Reqs :
        (req[r].pc # "idle" /\ req[r].op \in {"create", "update"})
        => /\ req[r].strategy = StrategyV1 => req[r].token = "v1"
           /\ req[r].token \notin {"v1", "v2"} =>
                 /\ req[r].strategy = NoStrategy
                 /\ req[r].pc = "done"
                 /\ req[r].err = UnsupportedVersion
                 /\ req[r].trace = <<>>
                 /\ req[r].res = <<>>

\* The handlers of the chain a request's strategy operation runs.
ChainOf(rq) ==
    IF rq.strategy = NoStrategy THEN {}
    ELSE IF rq.op = "create" THEN {ValidateCreate, BusinessCreate, AuditCreate}
    ELSE IF rq.op = "update"
    THEN {ValidateUpdate, BusinessOf(rq.strategy), AuditUpdate, MessageUpdate}
    ELSE {}

\* The chain invocation of request rq has started and not yet finished.
InFlight(rq) == rq.pc \in {"processed", "io", "repoDone"}

\* C12: successor references are not mutated during execution.  In no step
\* of concurrent requests does the next field of a handler take a new
\* value while a chain invocation that includes that handler is in flight.
\* (setNext also rewrites fields with the value they have; the formula
\* counts only the writes that change the field.)
C12_NoRewireInFlight ==
    [][\A h \in Handlers :
          next'[h] # next[h] =>
             \A q \in Reqs : InFlight(req[q]) => h \notin ChainOf(req[q])]_vars

\* The update of request r was processed by the business handler of its
\* own version only.
OwnBusinessOnly(r) ==
    /\ req[r].strategy = StrategyV1 =>
          BusinessUpdateV2 \notin Range(req[r].trace)
    /\ req[r].strategy = StrategyV2 =>
          BusinessUpdate \notin Range(req[r].trace)
    /\ (Len(req[r].trace) >= 2 /\ req[r].trace[2] # Thrown) =>
          req[r].trace[2] = BusinessOf(req[r].strategy)

C14_UpdateReturnsCanonical ==
    \A r \in Reqs :
        (/\ StrategyCall(r)
         /\ req[r].op = "update"
         /\ req[r].pc = "done"
         /\ req[r].err = NoErr)
        => /\ req[r].ret # <<>>
           /\ store[req[r].id].present
           /\ req[r].ret[1] = toDto(req[r].id, store[req[r].id])

\* C15: setNext(h) on handler x returns h itself, sets the successor of x
\* to h whatever it was before (the last write wins), and leaves the
\* successor of every other handler as it was: so it does on every wiring
\* reached, for every x and h.
C15_SetNextFrame ==
    \A x \in Handlers, h \in Handlers :
        LET after == setNext(next, x, h)
        IN  /\ setNextResult(x, h) = h
            /\ after[x] = h
            /\ \A y \in Handlers \ {x} : after[y] = next[y]

\* AuditCreateHandler, which no wiring links to a successor, has been
\* linked to MessageUpdateHandler by a setNext while every other handler
\* keeps a stale successor.
C15_Witness ==
    next = [y \in Handlers |->
               IF y = AuditCreate THEN MessageUpdate ELSE ValidateUpdate]

\* The validation stage of request r raised.
ValidationRaised(r) ==
    /\ StrategyCall(r)
    /\ Len(req[r].trace) >= 2
    /\ req[r].trace[1] \in {ValidateUpdate, ValidateCreate}
    /\ req[r].trace[2] = Thrown

\* C16: validation does not touch persistence.  Whenever the Validate-Update
\* or the Validate-Create stage of an invocation has raised, no repository
\* call is or was in flight in that invocation, no handler that calls the
\* repository was invoked, and the store is as it was when the strategy
\* operation was called.
C16_ValidationNoPersistence ==
    \A r \in Reqs :
        ValidationRaised(r)
        => /\ store = req[r].pre
           /\ req[r].pc \notin {"io", "repoDone"}
           /\ req[r].res = <<>>
           /\ req[r].ioerr = NoErr
           /\ Range(req[r].trace) \cap Suspending = {}

\* An update of the stored id1 whose body has no infoport: ValidateUpdate
\* raised and the request ended with that error.
C16_Witness ==
    \E r \in Reqs :
        /\ req[r].op = "update"
        /\ req[r].id = "id1"
        /\ req[r].pc = "done"
        /\ req[r].err = ValidationFailed
        /\ req[r].trace = <<ValidateUpdate, Thrown>>

\* A create of request r that has returned or failed.
CreateEnded(r) ==
    /\ StrategyCall(r)
    /\ req[r].op = "create"
    /\ req[r].pc = "done"

\* C17: delegation of create.  A create served by the v2 strategy and a
\* create served by the v1 strategy, called with the same DTO on the same
\* repository state, end with the same result (record returned or error),
\* the same sequence of process invocations and the same repository
\* effect: no repository call, the store left as it was.
C17_CreateDelegation ==
    \A r, q \in Reqs :
        (/\ CreateEnded(r)
         /\ CreateEnded(q)
         /\ req[r].strategy = StrategyV1
         /\ req[q].strategy = StrategyV2
         /\ req[r].dto = req[q].dto
         /\ req[r].pre = req[q].pre)
        => /\ req[q].ret = req[r].ret
           /\ req[q].err = req[r].err
           /\ req[q].trace = req[r].trace
           /\ req[q].res = req[r].res
           /\ req[q].ioerr = req[r].ioerr
           /\ store = req[r].pre

\* A v1 create and a v2 create of the same valid DTO that both returned
\* after the three stages of the create chain.
C17_Witness ==
    \E r, q \in Reqs :
        /\ CreateEnded(r)
        /\ CreateEnded(q)
        /\ req[r].strategy = StrategyV1
        /\ req[q].strategy = StrategyV2
        /\ req[r].dto = req[q].dto
        /\ req[r].pre = req[q].pre
        /\ req[q].err = NoErr
        /\ req[q].trace = <<ValidateCreate, BusinessCreate, AuditCreate>>

\* C18: message stage idempotence.  Every further invocation of
\* MessageUpdateHandler's process with the context of the completed
\* operation leaves the store exactly as the first invocation left it.
C18_MessageIdempotent ==
    [][\A r \in Reqs :
          (/\ req[r].pc = "processed"
           /\ req[r].cur = MessageUpdate
           /\ req'[r].pc = "processed"
           /\ req'[r].cur = MessageUpdate)
          => store' = store]_vars

\* A v1 update that renamed the stored record and whose message stage was
\* invoked three times: the record is as the business stage wrote it.
C18_Witness ==
    \E r \in Reqs :
        /\ req[r].pc = "processed"
        /\ req[r].trace = <<ValidateUpdate, BusinessUpdate, AuditUpdate,
                            MessageUpdate, MessageUpdate, MessageUpdate>>
        /\ req[r].dto.name = "Renamed"
        /\ store[req[r].id] = [present |-> TRUE, name |-> "Renamed",
                               description |-> NoVal, status |-> "ACTIVE"]

\* C19: identifier immutability.  A stored record's identifier is the key
\* it is stored under, which no repository operation changes.  Whatever
\* the version and whatever identifier the client puts in the body, an
\* update(id, dto) handles a context that carries id, addresses every
\* repository call to id, gets back a record that carries id, writes no
\* record other than the one stored under id and makes no record appear
\* under another identifier.
C19_IdentifierImmutable ==
    \A r \in Reqs :
        (StrategyCall(r) /\ req[r].op = "update")
        => /\ req[r].ctx.id = req[r].id
           /\ req[r].res # <<>> => req[r].res[1].id = req[r].id
           /\ \A i \in Ids \ {req[r].id} : store[i] = req[r].pre[i]
           /\ \A i \in Ids : store[i].present => req[r].pre[i].present

\* A v2 update of id1 whose body names id2 and whose repository call has
\* answered: the record under id1 is renamed, the record returned carries
\* id1 and nothing is stored under id2.
C19_Witness ==
    \E r \in Reqs :
        /\ req[r].op = "update"
        /\ req[r].body.id = "id2"
        /\ req[r].strategy = StrategyV2
        /\ req[r].id = "id1"
        /\ req[r].pc = "repoDone"
        /\ req[r].dto.name = "Renamed"
        /\ req[r].res # <<>>
        /\ req[r].res[1].id = "id1"
        /\ store["id1"].name = "Renamed"
        /\ ~store["id2"].present

\* C20: wiring idempotence.  Whatever the successor references are, the
\* wiring step of v1's create, of v1's update and of v2's update performed
\* twice or three times in a row leaves every handler with the successor
\* that performing it once leaves.
C20_WiringIdempotent ==
    /\ WireCreate(WireCreate(next)) = WireCreate(next)
    /\ WireCreate(WireCreate(WireCreate(next))) = WireCreate(next)
    /\ \A s \in {StrategyV1, StrategyV2} :
         LET b == BusinessOf(s)
             once == WireUpdate(next, b)
         IN  /\ WireUpdate(once, b) = once
             /\ WireUpdate(WireUpdate(once, b), b) = once

\* The v1 update wiring performed on a wiring in which MessageUpdateHandler
\* and BusinessUpdateHandlerV2 hold a stale successor: performing it again
\* changes nothing.
C20_Witness ==
    /\ next[ValidateUpdate] = BusinessUpdate
    /\ next[BusinessUpdate] = AuditUpdate
    /\ next[AuditUpdate] = MessageUpdate
    /\ next[MessageUpdate] = ValidateUpdate
    /\ next[BusinessUpdateV2] = ValidateUpdate
    /\ WireUpdate(next, BusinessUpdate) = next

\* C21: termination of update.  Every invocation of a strategy's update,
\* of either version, on a stored or a missing identifier, eventually
\* ends (it returns a record or raises an error), every repository call
\* being answered.
C21_UpdateTerminates ==
    \A r \in Reqs :
        (StrategyCall(r) /\ req[r].op = "update") ~> (req[r].pc = "done")

\* The invocations of a business update process recorded for request rq
\* that called repo.update: all of them, but one that threw on reading
\* dto.id of null before the call.
RepoUpdateCalls(rq) ==
    {i \in 1..Len(rq.trace) :
        /\ rq.trace[i] \in Suspending
        /\ ~(/\ i < Len(rq.trace)
             /\ rq.trace[i + 1] = Thrown
             /\ rq.exc = NullDeref)}

\* C22: one persistence write per update.  During a single invocation of a
\* strategy's update, of either version, repo.update is called at most
\* once, and only the business stage calls it.
C22_OneWritePerUpdate ==
    \A r \in Reqs :
        (StrategyCall(r) /\ req[r].op = "update")
        => /\ Cardinality(RepoUpdateCalls(req[r])) <= 1
           /\ req[r].pc \in {"io", "repoDone"} =>
                 req[r].cur \in {BusinessUpdate, BusinessUpdateV2}

\* C23: single shared context.  Within one chain invocation, the context
\* handed to every stage whose process runs is the DTO the first handler
\* received; no stage is handed another object, such as the value a
\* repository call returned.
C23_SingleContext ==
    \A r \in Reqs :
        StrategyCall(r) => req[r].ctx = req[r].dto

\* The audit or the message stage of the update of request r raised after
\* the business stage had its write answered.
SideEffectRaised(r) ==
    /\ StrategyCall(r)
    /\ req[r].op = "update"
    /\ req[r].cur \in {AuditUpdate, MessageUpdate}
    /\ req[r].exc = SideEffectError

\* C24: no rollback, fail-closed side-effect stages.  When the process of
\* the audit or of the message stage raises after the business stage has
\* persisted, the caller of the strategy operation receives that error, no
\* later stage runs, and the store keeps what the business stage wrote: no
\* compensating write is made.
C24_NoRollback ==
    \A r \in Reqs :
        SideEffectRaised(r)
        => /\ req[r].trace[Len(req[r].trace)] = Thrown
           /\ req[r].cur = AuditUpdate =>
                 MessageUpdate \notin Range(req[r].trace)
           /\ req[r].pc = "done" => req[r].err = SideEffectError
           /\ req[r].ret = <<>>
           /\ store = RepoUpdate(req[r].pre, req[r].id, req[r].dto).store

\* A v1 update that renamed the stored record and whose audit stage then
\* raised: the request ended with that error and the record stays renamed.
C24_Witness ==
    \E r \in Reqs :
        /\ req[r].pc = "done"
        /\ req[r].err = SideEffectError
        /\ req[r].trace = <<ValidateUpdate, BusinessUpdate, AuditUpdate, Thrown>>
        /\ req[r].pre[req[r].id].name = "Catalog A"
        /\ store[req[r].id].name = "Renamed"

\* The create chain as documented.
V1CreateOrder == <<ValidateCreate, BusinessCreate, AuditCreate>>

\* C25: v1 create stage order.  In an invocation of v1's create in which no
\* stage fails, the processes invoked are, in this order and once each,
\* ValidateCreate, BusinessCreate, AuditCreate, and no handler of the
\* update chains, whatever updates ran before.
C25_V1CreateOrder ==
    \A r \in Reqs :
        (/\ StrategyCall(r)
         /\ req[r].strategy = StrategyV1
         /\ req[r].op = "create"
         /\ Thrown \notin Range(req[r].trace))
        => /\ IsPrefix(req[r].trace, V1CreateOrder)
           /\ req[r].pc = "done" => req[r].trace = V1CreateOrder

\* A v1 create that returned after its three stages, an update of each
\* version having wired the update handlers before.
C25_Witness ==
    \E r \in Reqs :
        /\ req[r].strategy = StrategyV1
        /\ req[r].op = "create"
        /\ req[r].pc = "done"
        /\ req[r].err = NoErr
        /\ req[r].trace = V1CreateOrder
        /\ next[ValidateUpdate] = BusinessUpdateV2
        /\ next[BusinessUpdate] = AuditUpdate

\* C26: identifier stamping.  For every update(id, dto), the context the
\* first stage's process receives carries the id argument, whatever
\* identifier the client put in the DTO, and the first repository call of
\* the business stage names the id argument: the record it returns is the
\* one stored under that id.
C26_IdentifierStamped ==
    \A r \in Reqs :
        (StrategyCall(r) /\ req[r].op = "update")
        => /\ req[r].trace[1] = ValidateUpdate
           /\ req[r].dto = [req[r].body EXCEPT !.id = req[r].id]
           /\ Len(req[r].trace) = 1 => req[r].ctx.id = req[r].id
           /\ (req[r].pc = "repoDone" /\ Len(req[r].trace) = 2) =>
                 /\ req[r].ctx.id = req[r].id
                 /\ req[r].res # <<>> =>
                       /\ req[r].res[1].id = req[r].id
                       /\ req[r].pre[req[r].id].present

\* A v2 update of id1 whose body names id2: validation received id1 and the
\* business stage's repository call returned the record stored under id1.
C26_Witness ==
    \E r \in Reqs :
        /\ req[r].op = "update"
        /\ req[r].id = "id1"
        /\ req[r].body.id = "id2"
        /\ req[r].strategy = StrategyV2
        /\ req[r].pc = "repoDone"
        /\ Len(req[r].trace) = 2
        /\ req[r].ctx.id = "id1"
        /\ req[r].res # <<>>
        /\ req[r].res[1].id = "id1"

\* The acceptance rule documented for Validate-Update: the identifier is
\* required, and a name, when given, has at least 3 characters after
\* trimming.
DocumentedUpdateRule(ctx) ==
    IF ~Truthy(ctx.id) \/ (Truthy(ctx.name) /\ TrimmedLength(ctx.name) < 3)
    THEN ValidationFailed
    ELSE NoErr

\* C27: Validate-Update acceptance rule.  ValidateUpdateHandler.process
\* raises exactly when the context's id is missing or its name is present
\* and shorter than 3 characters after trimming, and accepts every other
\* context.
C27_ValidateUpdateRule ==
    \A r \in Reqs :
        (/\ StrategyCall(r)
         /\ req[r].pc = "processed"
         /\ req[r].cur = ValidateUpdate)
        => req[r].exc = DocumentedUpdateRule(req[r].ctx)

\* The handler reached from h after n next references, NoNext past the end.
RECURSIVE Follow(_, _)
Follow(h, n) ==
    IF n = 0 \/ h = NoNext THEN h ELSE Follow(next[h], n - 1)

\* C28: acyclic successor graph.  After any sequence and any interleaving
\* of create and update calls of both versions, the next references lead
\* from every handler to a handler without successor in at most 3 steps,
\* no handler is reached from itself, and MessageUpdateHandler and
\* AuditCreateHandler have no successor.
C28_AcyclicWiring ==
    /\ \A h \in Handlers :
         /\ \E n \in 0..3 :
               Follow(h, n) \in Handlers /\ next[Follow(h, n)] = NoNext
         /\ \A n \in 1..Cardinality(Handlers) : Follow(h, n) # h
    /\ next[MessageUpdate] = NoNext
    /\ next[AuditCreate] = NoNext

\* The wiring after a create and updates of both versions, the v2 update
\* last, with two requests in flight: both update chains and the create
\* chain are linked.
C28_Witness ==
    /\ next[ValidateCreate] = BusinessCreate
    /\ next[BusinessCreate] = AuditCreate
    /\ next[ValidateUpdate] = BusinessUpdateV2
    /\ next[BusinessUpdate] = AuditUpdate
    /\ next[BusinessUpdateV2] = AuditUpdate
    /\ next[AuditUpdate] = MessageUpdate
    /\ \E r, q \in Reqs : r # q /\ InFlight(req[r]) /\ InFlight(req[q])

\* C29: same-version concurrency is benign.  Whatever the interleaving of
\* concurrent v1 updates, each of which rewires the shared handlers, the
\* context of every v1 update in which no stage fails passes through
\* ValidateUpdate, BusinessUpdate, AuditUpdate and MessageUpdate once each
\* and in that order.  (It holds with v2 requests in flight as well.)
C29_SameVersionBenign ==
    \A r \in Reqs :
        (/\ StrategyCall(r)
         /\ req[r].strategy = StrategyV1
         /\ req[r].op = "update"
         /\ Thrown \notin Range(req[r].trace))
        => /\ IsPrefix(req[r].trace, V1UpdateOrder)
           /\ req[r].pc = "done" => req[r].trace = V1UpdateOrder
           /\ \A i, j \in 1..Len(req[r].trace) :
                 req[r].trace[i] = req[r].trace[j] => i = j

\* Two v1 updates in flight at once: one has gone through its four stages
\* while the other, which rewired the handlers on arriving, awaits the
\* repository.
C29_Witness ==
    \E r, q \in Reqs :
        /\ r # q
        /\ req[r].strategy = StrategyV1
        /\ req[q].strategy = StrategyV1
        /\ req[r].op = "update"
        /\ req[q].op = "update"
        /\ req[r].pc = "processed"
        /\ req[r].trace = V1UpdateOrder
        /\ req[q].pc = "io"
        /\ req[q].trace = <<ValidateUpdate, BusinessUpdate>>

=============================================================================
